---- MODULE Spec2Model ----
(***************************************************************************)
(* The callback registry of later (src/src/callback_registry.cpp): a       *)
(* priority queue of callbacks keyed by (when, callbackNum), filled by     *)
(* add() from any thread and drained by take() on the main thread, with a  *)
(* blocking wait() that sleeps on a condition variable in slices of at     *)
(* most two seconds.                                                       *)
(*                                                                         *)
(* Time is counted in whole seconds.  Every thread is a small program      *)
(* counter machine; one action is one step a thread takes between two      *)
(* points where another thread, or the clock, can be observed to move.     *)
(***************************************************************************)
EXTENDS Integers, Sequences, FiniteSets, TLC

\* ------------------------------------------------------------------ bounds
MaxTime == 3            \* the clock stops advancing here
MaxCallbacks == 2       \* callbacks constructed in one run

\* The main (owner) thread, which adds, takes and waits, and a background
\* thread that adds.
Main == "main"
Producers == {"bg"}
Threads == Producers \cup {Main}
Pollers == {Main}           \* the threads that call the queries on their own
NoThread == "none"

Delays == {0, 1, 3}         \* the secs argument of add()
Timeouts == {-1, 0, 1}      \* the timeoutSecs argument of wait()
TakeMaxes == {0, 1, 2}      \* the max argument of take()

\* wait() replaces a negative timeout by 3e10 seconds.  The model checker's
\* integers end at 2^31 - 1, so the model uses a duration below that which is
\* still far beyond every clock value and due time it can reach.
ThousandYears == 2000000000

\* ------------------------------------------------------------------- state
VARIABLES
  now,              \* the clock read by Timestamp()
  nextCallbackNum,  \* the process-wide atomic counter
  queue,            \* CallbackRegistry::queue, the array under the priority_queue
  mutex,            \* CallbackRegistry::mutex (recursive): [owner, count]
  condvar,          \* CallbackRegistry::condvar: [waiting, woken]
  pc,               \* per thread: the statement it is at
  cb,               \* per thread: add()'s local `cb`
  takeMax,          \* take(): max
  takeTime,         \* take(): time
  results,          \* take(): results
  expireTime,       \* wait(): expireTime
  end,              \* wait(): end
  waitFor,          \* wait(): waitFor, the timeout handed to timedwait
  wakeTime,         \* the instant the running timedwait times out
  waitRet,          \* how wait() ended: "none", "true", "false", "interrupted"
  interruptPending, \* the host's pending-interrupt flag read by checkUserInterrupt
  pushed,           \* history: callbackNums of the queued callbacks, in the order of queue.push
  takeBefore,       \* history: the callbacks queued when the running take() began
  waitCall,         \* history: the running wait()'s argument, entry time, entry counter and entry queue length
  lastCheck,        \* history: clock at wait() entry or at its last interrupt check
  returned,         \* history: per callbackNum, how often finished take() calls returned it
  ready,            \* history: when wait() returned true, the owner having called nothing since; else -1
  tempQueue,        \* list(): temp_queue
  listResults,      \* list(): results
  callbacks,        \* testCallbackOrdering(): callbacks
  ordering          \* testCallbackOrdering(): what the comparisons gave

vars == <<now, nextCallbackNum, queue, mutex, condvar, pc, cb,
          takeMax, takeTime, results, expireTime, end, waitFor, wakeTime, waitRet,
          interruptPending, pushed, takeBefore, waitCall, lastCheck, returned, ready,
          tempQueue, listResults, callbacks, ordering>>

takeVars == <<takeMax, takeTime, results>>
waitVars == <<expireTime, end, waitFor, wakeTime, interruptPending>>
histVars == <<pushed, takeBefore, waitCall, lastCheck, returned, ready>>
listVars == <<tempQueue, listResults>>
testVars == <<callbacks, ordering>>
NoCall == [timeoutSecs |-> 0, at |-> 0, num |-> 0, len |-> 0]

\* The sequence numbers a run hands out.
CallbackNums == 0..(MaxCallbacks - 1)
NoReturns == [n \in CallbackNums |-> 0]
NotReady == -1
Unchecked == [done |-> FALSE, less |-> <<>>, greater |-> <<>>]

NoCallback == [when |-> 0, callbackNum |-> -1]

\* ------------------------------------------------- Callback and Timestamp
\* Timestamp::operator> and operator< on whole seconds.
TimestampGreater(a, b) == a > b
TimestampLess(a, b) == a < b

\* Timestamp::diff_secs: this - other, in seconds.
diff_secs(a, b) == a - b

\* A comparison that looks at the due time alone.
CallbackLessByWhen(a, b) == TimestampLess(a.when, b.when)

\* Callback::operator> and operator<: by when, then by callbackNum.
CallbackGreater(a, b) ==
  \/ TimestampGreater(a.when, b.when)
  \/ (~TimestampLess(a.when, b.when) /\ a.callbackNum > b.callbackNum)

CallbackLess(a, b) ==
  \/ TimestampLess(a.when, b.when)
  \/ (~TimestampGreater(a.when, b.when) /\ a.callbackNum < b.callbackNum)

\* ------------------------------------------------------- the priority queue
\* std::priority_queue<Callback_sp, vector, pointer_greater_than>: a binary heap
\* in an array whose root is the element no other element is less than.
Swap(h, i, j) == [h EXCEPT ![i] = h[j], ![j] = h[i]]

RECURSIVE SiftUp(_, _)
SiftUp(h, i) ==
  IF i = 1 THEN h
  ELSE LET p == i \div 2 IN
       IF CallbackGreater(h[p], h[i]) THEN SiftUp(Swap(h, p, i), p) ELSE h

RECURSIVE SiftDown(_, _)
SiftDown(h, i) ==
  LET l == 2 * i
      r == 2 * i + 1
      m1 == IF l <= Len(h) /\ CallbackGreater(h[i], h[l]) THEN l ELSE i
      m == IF r <= Len(h) /\ CallbackGreater(h[m1], h[r]) THEN r ELSE m1
  IN IF m = i THEN h ELSE SiftDown(Swap(h, i, m), m)

\* A push that appends without restoring the heap order.
pushNoSift(q, c) == Append(q, c)

\* queue.push(cb)
push(q, c) == SiftUp(Append(q, c), Len(q) + 1)

\* queue.top()
top(q) == q[1]

\* A pop that drops the last element of the array and keeps the top.
popLast(q) == SubSeq(q, 1, Len(q) - 1)

\* queue.pop()
pop(q) ==
  IF Len(q) <= 1 THEN <<>>
  ELSE SiftDown([SubSeq(q, 1, Len(q) - 1) EXCEPT ![1] = q[Len(q)]], 1)

Items(q) == {q[i] : i \in 1..Len(q)}

\* ------------------------------------------------------------- the queries
\* A nextTimestamp that reads the last element of the array, not the top.
nextTimestampLast(q) ==
  IF q = <<>> THEN [has_value |-> FALSE, value |-> 0]
  ELSE [has_value |-> TRUE, value |-> q[Len(q)].when]

\* CallbackRegistry::nextTimestamp
nextTimestamp(q) ==
  IF q = <<>> THEN [has_value |-> FALSE, value |-> 0]
  ELSE [has_value |-> TRUE, value |-> top(q).when]

\* CallbackRegistry::empty
empty(q) == q = <<>>

\* A due that wants the top timestamp strictly before `time`.
dueStrict(q, time) == q # <<>> /\ TimestampLess(top(q).when, time)

\* CallbackRegistry::due
due(q, time) == q # <<>> /\ ~TimestampGreater(top(q).when, time)

\* ------------------------------------------------------------------- mutex
Free == [owner |-> NoThread, count |-> 0]

\* A mutex that anyone can take at any time.
CanLockAlways(t) == TRUE

\* A mutex that is not recursive: its owner cannot take it again.
CanLockNonRecursive(t) == mutex.owner = NoThread

\* Guard guard(mutex) on a recursive mutex: free, or already owned by t.
CanLock(t) == mutex.owner \in {NoThread, t}
Locked(t) == [owner |-> t, count |-> mutex.count + 1]
Release(m) == IF m.count <= 1 THEN Free ELSE [m EXCEPT !.count = @ - 1]
Unlocked == Release(mutex)

\* A Guard inside a Guard: nextTimestamp() and due() called by take() and
\* wait() take the mutex once more and give it back before they return.
NestedGuard(t) == CanLock(t) /\ mutex' = Release(Locked(t))

\* -------------------------------------------------------------------- Init
\* The registry as constructed, its threads between calls.
InitRegistry ==
  /\ now = 0
  /\ nextCallbackNum = 0
  /\ queue = <<>>
  /\ mutex = Free
  /\ condvar = [waiting |-> FALSE, woken |-> FALSE]
  /\ pc = [t \in Threads |-> "idle"]
  /\ cb = [t \in Threads |-> NoCallback]
  /\ takeMax = 0
  /\ takeTime = 0
  /\ results = <<>>
  /\ expireTime = 0
  /\ end = 0
  /\ waitFor = 0
  /\ interruptPending = FALSE
  /\ waitCall = NoCall
  /\ wakeTime = 0
  /\ waitRet = "none"
  /\ pushed = <<>>
  /\ takeBefore = {}
  /\ lastCheck = 0
  /\ returned = NoReturns
  /\ ready = NotReady
  /\ tempQueue = <<>>
  /\ listResults = <<>>

Init ==
  /\ InitRegistry
  /\ callbacks = <<>>
  /\ ordering = Unchecked

\* --------------------------------------------------------------------- add
\* A constructor that reads the counter and leaves it as it is.
AddNewNoIncrement(t, secs) ==
  /\ pc[t] = "idle"
  /\ nextCallbackNum < MaxCallbacks
  /\ cb' = [cb EXCEPT ![t] = [when |-> now + secs, callbackNum |-> nextCallbackNum]]
  /\ pc' = [pc EXCEPT ![t] = "a_lock"]
  /\ ready' = IF t = Main THEN NotReady ELSE ready
  /\ UNCHANGED <<now, nextCallbackNum, queue, mutex, condvar,
                 takeVars, waitVars, waitRet,
                 pushed, takeBefore, waitCall, lastCheck, returned,
                 listVars, testVars>>

\* Timestamp when(secs); Callback_sp cb = make_shared<...Callback>(when, func);
\* the constructor takes callbackNum = nextCallbackNum++.  Nothing is locked yet.
\* Both overloads of add() do the same; the main thread's is the Rcpp one.  The
\* counter is a uint64: MaxCallbacks keeps it far from wrapping.
AddNew(t, secs) ==
  /\ pc[t] = "idle"
  /\ nextCallbackNum < MaxCallbacks
  /\ cb' = [cb EXCEPT ![t] = [when |-> now + secs, callbackNum |-> nextCallbackNum]]
  /\ nextCallbackNum' = nextCallbackNum + 1
  /\ pc' = [pc EXCEPT ![t] = "a_lock"]
  /\ ready' = IF t = Main THEN NotReady ELSE ready
  /\ UNCHANGED <<now, queue, mutex, condvar,
                 takeVars, waitVars, waitRet,
                 pushed, takeBefore, waitCall, lastCheck, returned,
                 listVars, testVars>>

\* Guard guard(mutex);
AddLock(t) ==
  /\ pc[t] = "a_lock"
  /\ CanLock(t)
  /\ mutex' = Locked(t)
  /\ pc' = [pc EXCEPT ![t] = "a_push"]
  /\ UNCHANGED <<now, nextCallbackNum, queue, condvar, cb,
                 takeVars, waitVars, waitRet, histVars,
                 listVars, testVars>>

\* condvar.signal(): a thread blocked in timedwait is woken.
signal(cv) == IF cv.waiting THEN [cv EXCEPT !.woken = TRUE] ELSE cv

\* An add that pushes and forgets to signal.
AddPushNoSignal(t) ==
  /\ pc[t] = "a_push"
  /\ queue' = push(queue, cb[t])
  /\ pushed' = Append(pushed, cb[t].callbackNum)
  /\ mutex' = Unlocked
  /\ cb' = [cb EXCEPT ![t] = NoCallback]
  /\ pc' = [pc EXCEPT ![t] = "idle"]
  /\ UNCHANGED <<now, nextCallbackNum, condvar,
                 takeVars, waitVars, waitRet, takeBefore, waitCall, lastCheck, returned, ready,
                 listVars, testVars>>

\* queue.push(cb); condvar.signal(); then the guard is released on return.
AddPush(t) ==
  /\ pc[t] = "a_push"
  /\ queue' = push(queue, cb[t])
  /\ pushed' = Append(pushed, cb[t].callbackNum)
  /\ condvar' = signal(condvar)
  /\ mutex' = Unlocked
  /\ cb' = [cb EXCEPT ![t] = NoCallback]
  /\ pc' = [pc EXCEPT ![t] = "idle"]
  /\ UNCHANGED <<now, nextCallbackNum,
                 takeVars, waitVars, waitRet, takeBefore, waitCall, lastCheck, returned, ready,
                 listVars, testVars>>

\* -------------------------------------------------------------------- take
\* take(max, time): Guard guard(mutex); std::vector<Callback_sp> results;
TakeLock(max, time) ==
  /\ pc[Main] = "idle"
  /\ CanLock(Main)
  /\ mutex' = Locked(Main)
  /\ takeMax' = max
  /\ takeTime' = time
  /\ results' = <<>>
  /\ takeBefore' = Items(queue)
  /\ pc' = [pc EXCEPT ![Main] = "t_loop"]
  /\ UNCHANGED <<now, nextCallbackNum, queue, condvar, cb,
                 waitVars, waitRet, pushed, waitCall, lastCheck, returned, ready,
                 listVars, testVars>>

\* A loop condition that is off by one on the count.
TakeContinueOneMore(q, res, max, time) == due(q, time) /\ (max <= 0 \/ Len(res) <= max)

\* while (this->due(time) && (max <= 0 || results.size() < max))
TakeContinue(q, res, max, time) == due(q, time) /\ (max <= 0 \/ Len(res) < max)

\* A copy that puts the top in front of the results instead of behind them.
TakeCopyFront ==
  /\ pc[Main] = "t_loop"
  /\ NestedGuard(Main)
  /\ TakeContinue(queue, results, takeMax, takeTime)
  /\ results' = <<top(queue)>> \o results
  /\ pc' = [pc EXCEPT ![Main] = "t_pop"]
  /\ UNCHANGED <<now, nextCallbackNum, queue, condvar, cb,
                 takeMax, takeTime, waitVars, waitRet, histVars,
                 listVars, testVars>>

\* The loop condition holds: results.push_back(this->queue.top());
TakeCopy ==
  /\ pc[Main] = "t_loop"
  /\ NestedGuard(Main)
  /\ TakeContinue(queue, results, takeMax, takeTime)
  /\ results' = Append(results, top(queue))
  /\ pc' = [pc EXCEPT ![Main] = "t_pop"]
  /\ UNCHANGED <<now, nextCallbackNum, queue, condvar, cb,
                 takeMax, takeTime, waitVars, waitRet, histVars,
                 listVars, testVars>>

\* this->queue.pop();
TakePop ==
  /\ pc[Main] = "t_pop"
  /\ queue' = pop(queue)
  /\ pc' = [pc EXCEPT ![Main] = "t_loop"]
  /\ UNCHANGED <<now, nextCallbackNum, mutex, condvar, cb,
                 takeVars, waitVars, waitRet, histVars,
                 listVars, testVars>>

\* The loop condition fails: the loop is left with results as they will be returned.
TakeExit ==
  /\ pc[Main] = "t_loop"
  /\ NestedGuard(Main)
  /\ ~TakeContinue(queue, results, takeMax, takeTime)
  /\ pc' = [pc EXCEPT ![Main] = "t_ret"]
  /\ UNCHANGED <<now, nextCallbackNum, queue, condvar, cb,
                 takeVars, waitVars, waitRet, histVars,
                 listVars, testVars>>

\* The tally of returned callbacks after a take() has returned `res`.
Returned(tally, res) ==
  [n \in DOMAIN tally |->
     tally[n] + Cardinality({i \in 1..Len(res) : res[i].callbackNum = n})]

\* return results; the guard is released.
TakeReturn ==
  /\ pc[Main] = "t_ret"
  /\ mutex' = Unlocked
  /\ takeMax' = 0
  /\ takeTime' = 0
  /\ results' = <<>>
  /\ takeBefore' = {}
  /\ pushed' = SelectSeq(pushed, LAMBDA n : \E c \in Items(queue) : c.callbackNum = n)
  /\ returned' = Returned(returned, results)
  /\ ready' = NotReady
  /\ pc' = [pc EXCEPT ![Main] = "idle"]
  /\ UNCHANGED <<now, nextCallbackNum, queue, condvar, cb,
                 waitVars, waitRet, waitCall, lastCheck,
                 listVars, testVars>>

\* -------------------------------------------------------------------- wait
\* The statements of wait() the main thread can be at.
WaitPcs == {"w_lock", "w_eval", "w_timedwait", "w_blocked", "w_check", "w_due"}

\* A negative timeout used as it is given.
TimeoutAsGiven(timeoutSecs) == timeoutSecs

\* if (timeoutSecs < 0) timeoutSecs = 3e10;
EffectiveTimeout(timeoutSecs) == IF timeoutSecs < 0 THEN ThousandYears ELSE timeoutSecs

\* Timestamp expireTime(timeoutSecs);
WaitBegin(timeoutSecs) ==
  /\ pc[Main] = "idle"
  /\ expireTime' = now + EffectiveTimeout(timeoutSecs)
  /\ waitCall' = [timeoutSecs |-> timeoutSecs, at |-> now, num |-> nextCallbackNum,
                  len |-> Len(queue)]
  /\ lastCheck' = now
  /\ ready' = NotReady
  /\ pc' = [pc EXCEPT ![Main] = "w_lock"]
  /\ UNCHANGED <<now, nextCallbackNum, queue, mutex, condvar, cb,
                 takeVars, end, waitFor, wakeTime, interruptPending, waitRet,
                 pushed, takeBefore, returned,
                 listVars, testVars>>

\* Guard guard(mutex);
WaitLock ==
  /\ pc[Main] = "w_lock"
  /\ CanLock(Main)
  /\ mutex' = Locked(Main)
  /\ pc' = [pc EXCEPT ![Main] = "w_eval"]
  /\ UNCHANGED <<now, nextCallbackNum, queue, condvar, cb,
                 takeVars, waitVars, waitRet, histVars,
                 listVars, testVars>>

\* Timestamp end = expireTime; if (next.has_value() && *next < expireTime) end = *next;
WaitEnd(expire, next) ==
  IF next.has_value /\ TimestampLess(next.value, expire) THEN next.value ELSE expire

\* A loop that is never left.
WaitBreakNever(w) == FALSE

\* A break that comes a second early.
WaitBreakEarly(w) == w <= 1

\* if (waitFor <= 0) break;
WaitBreak(w) == w <= 0

\* A sleep of the full 2 seconds whatever is left to wait.
WaitAlwaysTwo(w) == 2

\* No cap on the sleep.
WaitNoClamp(w) == w

\* if (waitFor > 2) waitFor = 2;
WaitClamp(w) == IF w > 2 THEN 2 ELSE w

\* One pass of the loop head: lines 164-176, under the lock.
WaitEvaluate ==
  /\ pc[Main] = "w_eval"
  /\ NestedGuard(Main)
  /\ end' = WaitEnd(expireTime, nextTimestamp(queue))
  /\ LET w == diff_secs(end', now) IN
       IF WaitBreak(w)
       THEN /\ waitFor' = w
            /\ pc' = [pc EXCEPT ![Main] = "w_due"]
       ELSE /\ waitFor' = WaitClamp(w)
            /\ pc' = [pc EXCEPT ![Main] = "w_timedwait"]
  /\ UNCHANGED <<now, nextCallbackNum, queue, condvar, cb,
                 takeVars, expireTime, wakeTime, interruptPending, waitRet, histVars,
                 listVars, testVars>>

\* condvar.timedwait(waitFor): the mutex is released and the thread blocks.
WaitTimedwait ==
  /\ pc[Main] = "w_timedwait"
  /\ mutex' = Unlocked
  /\ condvar' = [waiting |-> TRUE, woken |-> FALSE]
  /\ wakeTime' = now + waitFor
  /\ pc' = [pc EXCEPT ![Main] = "w_blocked"]
  /\ UNCHANGED <<now, nextCallbackNum, queue, cb,
                 takeVars, expireTime, end, waitFor, interruptPending, waitRet, histVars,
                 listVars, testVars>>

\* The timed wait runs out.
CvTimeout ==
  /\ condvar.waiting /\ ~condvar.woken
  /\ now >= wakeTime
  /\ condvar' = [condvar EXCEPT !.woken = TRUE]
  /\ UNCHANGED <<now, nextCallbackNum, queue, mutex, pc, cb,
                 takeVars, waitVars, waitRet, histVars,
                 listVars, testVars>>

\* A condition variable may wake its waiter for no reason.
CvSpurious ==
  /\ condvar.waiting /\ ~condvar.woken
  /\ condvar' = [condvar EXCEPT !.woken = TRUE]
  /\ UNCHANGED <<now, nextCallbackNum, queue, mutex, pc, cb,
                 takeVars, waitVars, waitRet, histVars,
                 listVars, testVars>>

\* timedwait returns once the woken thread has the mutex again.
WaitReacquire ==
  /\ pc[Main] = "w_blocked"
  /\ condvar.woken
  /\ CanLock(Main)
  /\ mutex' = Locked(Main)
  /\ condvar' = [waiting |-> FALSE, woken |-> FALSE]
  /\ pc' = [pc EXCEPT ![Main] = "w_check"]
  /\ UNCHANGED <<now, nextCallbackNum, queue, cb,
                 takeVars, waitVars, waitRet, histVars,
                 listVars, testVars>>

\* The user asks to interrupt: the host raises its pending-interrupt flag.
\* Nothing signals the condition variable.  The flag is read by the interrupt
\* check alone, so it is raised while the main thread sleeps or is about to
\* check: raised earlier, the same check would find it.
UserInterrupt ==
  /\ pc[Main] \in {"w_blocked", "w_check"}
  /\ ~interruptPending
  /\ interruptPending' = TRUE
  /\ UNCHANGED <<now, nextCallbackNum, queue, mutex, condvar, pc, cb,
                 takeVars, expireTime, end, waitFor, wakeTime, waitRet, histVars,
                 listVars, testVars>>

\* A check whose interrupt is caught and dropped inside the loop.
WaitCheckSwallow ==
  /\ pc[Main] = "w_check"
  /\ lastCheck' = now
  /\ interruptPending' = FALSE
  /\ pc' = [pc EXCEPT ![Main] = "w_eval"]
  /\ UNCHANGED <<now, nextCallbackNum, queue, mutex, condvar, cb,
                 takeVars, expireTime, end, waitFor, wakeTime, waitRet,
                 pushed, takeBefore, waitCall, returned, ready,
                 listVars, testVars>>

\* Rcpp::checkUserInterrupt(): returns, or, with an interrupt pending, throws and
\* unwinds wait() (the guard is released by its destructor).
WaitCheckInterrupt ==
  /\ pc[Main] = "w_check"
  /\ lastCheck' = now
  /\ IF interruptPending
     THEN /\ interruptPending' = FALSE
          /\ waitRet' = "interrupted"
          /\ mutex' = Unlocked
          /\ pc' = [pc EXCEPT ![Main] = "w_done"]
     ELSE /\ pc' = [pc EXCEPT ![Main] = "w_eval"]
          /\ UNCHANGED <<interruptPending, waitRet, mutex>>
  /\ UNCHANGED <<now, nextCallbackNum, queue, condvar, cb,
                 takeVars, expireTime, end, waitFor, wakeTime,
                 pushed, takeBefore, waitCall, returned, ready,
                 listVars, testVars>>

\* A return that takes the end of the loop to mean that something is due.
WaitReturnAlwaysTrue ==
  /\ pc[Main] = "w_due"
  /\ CanLock(Main)
  /\ waitRet' = "true"
  /\ ready' = now
  /\ mutex' = Unlocked
  /\ pc' = [pc EXCEPT ![Main] = "w_done"]
  /\ UNCHANGED <<now, nextCallbackNum, queue, condvar, cb,
                 takeVars, waitVars, pushed, takeBefore, waitCall, lastCheck, returned,
                 listVars, testVars>>

\* A return that reports whether anything is queued at all.
WaitReturnNonEmpty ==
  /\ pc[Main] = "w_due"
  /\ CanLock(Main)
  /\ waitRet' = IF ~empty(queue) THEN "true" ELSE "false"
  /\ ready' = IF ~empty(queue) THEN now ELSE NotReady
  /\ mutex' = Unlocked
  /\ pc' = [pc EXCEPT ![Main] = "w_done"]
  /\ UNCHANGED <<now, nextCallbackNum, queue, condvar, cb,
                 takeVars, waitVars, pushed, takeBefore, waitCall, lastCheck, returned,
                 listVars, testVars>>

\* return due(); due() takes the mutex once more and gives it back, then the
\* guard of wait() is released.
WaitReturn ==
  /\ pc[Main] = "w_due"
  /\ CanLock(Main)
  /\ waitRet' = IF due(queue, now) THEN "true" ELSE "false"
  /\ ready' = IF due(queue, now) THEN now ELSE NotReady
  /\ mutex' = Unlocked
  /\ pc' = [pc EXCEPT ![Main] = "w_done"]
  /\ UNCHANGED <<now, nextCallbackNum, queue, condvar, cb,
                 takeVars, waitVars, pushed, takeBefore, waitCall, lastCheck, returned,
                 listVars, testVars>>

\* The caller has the outcome of wait(); its locals are gone.
WaitDone ==
  /\ pc[Main] = "w_done"
  /\ waitRet' = "none"
  /\ expireTime' = 0
  /\ end' = 0
  /\ waitFor' = 0
  /\ wakeTime' = 0
  /\ interruptPending' = FALSE
  /\ waitCall' = NoCall
  /\ lastCheck' = 0
  /\ pc' = [pc EXCEPT ![Main] = "idle"]
  /\ UNCHANGED <<now, nextCallbackNum, queue, mutex, condvar, cb,
                 takeVars, pushed, takeBefore, returned, ready,
                 listVars, testVars>>

\* -------------------------------------------------------------------- list
\* Callback::rRepresentation: the id and the due time relative to the clock as
\* it is read for this callback.
rRepresentation(c) == [id |-> c.callbackNum, when |-> diff_secs(c.when, now)]

\* list(): Guard guard(mutex);
ListLock ==
  /\ pc[Main] = "idle"
  /\ CanLock(Main)
  /\ mutex' = Locked(Main)
  /\ ready' = NotReady
  /\ pc' = [pc EXCEPT ![Main] = "l_copy"]
  /\ UNCHANGED <<now, nextCallbackNum, queue, condvar, cb,
                 takeVars, waitVars, waitRet,
                 pushed, takeBefore, waitCall, lastCheck, returned,
                 listVars, testVars>>

\* temp_queue = queue; Rcpp::List results;
ListCopy ==
  /\ pc[Main] = "l_copy"
  /\ tempQueue' = queue
  /\ listResults' = <<>>
  /\ pc' = [pc EXCEPT ![Main] = "l_loop"]
  /\ UNCHANGED <<now, nextCallbackNum, queue, mutex, condvar, cb,
                 takeVars, waitVars, waitRet, histVars,
                 testVars>>

\* A loop body that describes and pops the registry's own queue as well.
ListDescribeLive ==
  /\ pc[Main] = "l_loop"
  /\ tempQueue # <<>>
  /\ listResults' = Append(listResults, rRepresentation(top(queue)))
  /\ queue' = pop(queue)
  /\ tempQueue' = pop(tempQueue)
  /\ UNCHANGED <<now, nextCallbackNum, mutex, condvar, pc, cb,
                 takeVars, waitVars, waitRet, histVars,
                 testVars>>

\* while (!temp_queue.empty()):
\*   results.push_back(temp_queue.top()->rRepresentation()); temp_queue.pop();
ListDescribe ==
  /\ pc[Main] = "l_loop"
  /\ tempQueue # <<>>
  /\ listResults' = Append(listResults, rRepresentation(top(tempQueue)))
  /\ tempQueue' = pop(tempQueue)
  /\ UNCHANGED <<now, nextCallbackNum, queue, mutex, condvar, pc, cb,
                 takeVars, waitVars, waitRet, histVars,
                 testVars>>

\* temp_queue is empty: return results; the guard is released.
ListReturn ==
  /\ pc[Main] = "l_loop"
  /\ tempQueue = <<>>
  /\ mutex' = Unlocked
  /\ listResults' = <<>>
  /\ pc' = [pc EXCEPT ![Main] = "idle"]
  /\ UNCHANGED <<now, nextCallbackNum, queue, condvar, cb,
                 takeVars, waitVars, waitRet, histVars,
                 tempQueue, testVars>>

\* ----------------------------------------------------- the queries, called
\* nextTimestamp(), empty() or due() called on its own: Guard guard(mutex);
QueryLock(t) ==
  /\ pc[t] = "idle"
  /\ CanLock(t)
  /\ mutex' = Locked(t)
  /\ ready' = IF t = Main THEN NotReady ELSE ready
  /\ pc' = [pc EXCEPT ![t] = "q_read"]
  /\ UNCHANGED <<now, nextCallbackNum, queue, condvar, cb,
                 takeVars, waitVars, waitRet,
                 pushed, takeBefore, waitCall, lastCheck, returned,
                 listVars, testVars>>

\* The queue is read and the answer returned; the guard is released.
QueryRead(t) ==
  /\ pc[t] = "q_read"
  /\ mutex' = Unlocked
  /\ pc' = [pc EXCEPT ![t] = "idle"]
  /\ UNCHANGED <<now, nextCallbackNum, queue, condvar, cb,
                 takeVars, waitVars, waitRet, histVars,
                 listVars, testVars>>

\* ------------------------------------------------------------------- clock
\* The clock moves on by a second.
Tick ==
  /\ now < MaxTime
  /\ now' = now + 1
  /\ UNCHANGED <<nextCallbackNum, queue, mutex, condvar, pc, cb,
                 takeVars, waitVars, waitRet, histVars,
                 listVars, testVars>>

\* The main thread is between calls, or asleep in a timedwait that has neither
\* been woken nor run out.
MainAtRest ==
  \/ pc[Main] \in {"idle", "w_done"}
  \/ (pc[Main] = "w_blocked" /\ ~condvar.woken /\ now < wakeTime)

\* The clock of the timed specification: the statements of the main thread take
\* no time and a timed wait ends by its timeout at the latest, so a second
\* passes only while the main thread is at rest.
TickTimed ==
  /\ MainAtRest
  /\ Tick

Step ==
  \/ \E t \in Threads, secs \in Delays : AddNew(t, secs)
  \/ \E t \in Threads : AddLock(t)
  \/ \E t \in Threads : AddPush(t)
  \/ \E max \in TakeMaxes, time \in 0..MaxTime : TakeLock(max, time)
  \/ TakeCopy
  \/ TakePop
  \/ TakeExit
  \/ TakeReturn
  \/ \E timeoutSecs \in Timeouts : WaitBegin(timeoutSecs)
  \/ WaitLock
  \/ WaitEvaluate
  \/ WaitTimedwait
  \/ CvTimeout
  \/ CvSpurious
  \/ WaitReacquire
  \/ UserInterrupt
  \/ WaitCheckInterrupt
  \/ WaitReturn
  \/ WaitDone
  \/ ListLock
  \/ ListCopy
  \/ ListDescribe
  \/ ListReturn
  \/ \E t \in Pollers : QueryLock(t)
  \/ \E t \in Pollers : QueryRead(t)

Next ==
  \/ Step
  \/ Tick

NextTimed ==
  \/ Step
  \/ TickTimed

\* ------------------------------------------------- testCallbackOrdering
\* The callbacks the ordering test compares.  The test builds them one after
\* the other with one timestamp; here they are any callbacks of the bounded
\* range, so that different and equal due times and numbers all occur.
TestIndices == 1..3
TestCallbacks == [when : 0..MaxTime, callbackNum : 0..MaxCallbacks]

InitOrder ==
  /\ InitRegistry
  /\ callbacks \in [TestIndices -> TestCallbacks]
  /\ ordering = Unchecked

\* The comparisons of the test: operator< and operator> on every pair.
TestCallbackOrdering ==
  /\ ~ordering.done
  /\ ordering' =
       [done |-> TRUE,
        less |-> [i \in TestIndices |-> [j \in TestIndices |->
                    CallbackLess(callbacks[i], callbacks[j])]],
        greater |-> [i \in TestIndices |-> [j \in TestIndices |->
                    CallbackGreater(callbacks[i], callbacks[j])]]]
  /\ UNCHANGED <<now, nextCallbackNum, queue, mutex, condvar, pc, cb,
                 takeVars, waitVars, waitRet, histVars,
                 listVars, callbacks>>

NextOrder == TestCallbackOrdering

\* ---------------------------------------------------------------- fairness
\* The steps of the owner thread.
MainStep ==
  \/ \E secs \in Delays : AddNew(Main, secs)
  \/ AddLock(Main)
  \/ AddPush(Main)
  \/ \E max \in TakeMaxes, time \in 0..MaxTime : TakeLock(max, time)
  \/ TakeCopy
  \/ TakePop
  \/ TakeExit
  \/ TakeReturn
  \/ \E timeoutSecs \in Timeouts : WaitBegin(timeoutSecs)
  \/ WaitLock
  \/ WaitEvaluate
  \/ WaitTimedwait
  \/ WaitReacquire
  \/ WaitCheckInterrupt
  \/ WaitReturn
  \/ WaitDone
  \/ ListLock
  \/ ListCopy
  \/ ListDescribe
  \/ ListReturn
  \/ QueryLock(Main)
  \/ QueryRead(Main)

\* The clock of the fair specification: it also runs on past MaxTime for as
\* long as a wait() with a deadline, entered by MaxTime, has not reached the
\* deadline or sleeps in a timed wait that has not run out.
TickLive ==
  /\ \/ now < MaxTime
     \/ /\ pc[Main] \in WaitPcs
        /\ waitCall.timeoutSecs >= 0
        /\ waitCall.at <= MaxTime
        /\ (now < expireTime \/ (pc[Main] = "w_blocked" /\ now < wakeTime))
  /\ now' = now + 1
  /\ UNCHANGED <<nextCallbackNum, queue, mutex, condvar, pc, cb,
                 takeVars, waitVars, waitRet, histVars,
                 listVars, testVars>>

NextLive ==
  \/ Step
  \/ TickLive

\* Fair scheduling: the clock keeps running, a timed wait times out, the owner
\* thread keeps taking steps, a producer that has the mutex goes on, and a
\* producer that finds the mutex free again and again gets it.
Fairness ==
  /\ WF_vars(TickLive)
  /\ WF_vars(CvTimeout)
  /\ WF_vars(MainStep)
  /\ \A t \in Producers : SF_vars(AddLock(t)) /\ WF_vars(AddPush(t))

Spec == Init /\ [][Next]_vars

SpecLive == Init /\ [][NextLive]_vars /\ Fairness

SpecOrder == InitOrder /\ [][NextOrder]_vars

SpecTimed == Init /\ [][NextTimed]_vars

\* ------------------------------------------------------------ the properties
\* The order of the data model: ascending (dueTime, sequence).
KeyLess(a, b) ==
  \/ a.when < b.when
  \/ (a.when = b.when /\ a.callbackNum < b.callbackNum)

Min(a, b) == IF a < b THEN a ELSE b

\* take() has left its loop: results is what it returns, queue what it leaves.
TakeFinished == pc[Main] = "t_ret"

\* The callbacks that were due at the time given to the running take().
DueBefore == {c \in takeBefore : c.when <= takeTime}

\* callbackNum n was pushed onto the queue before callbackNum m.
PushedBefore(n, m) ==
  \E i, j \in 1..Len(pushed) : i < j /\ pushed[i] = n /\ pushed[j] = m

\* C1: what one take(max, time) returns is strictly ascending by
\* (when, callbackNum), and every callback it leaves queued that is due at
\* `time` has a greater key than every callback it returns.
C1_TakeSorted ==
  TakeFinished =>
    /\ \A i, j \in 1..Len(results) : i < j => KeyLess(results[i], results[j])
    /\ \A i \in 1..Len(results) : \A c \in Items(queue) :
         c.when <= takeTime => KeyLess(results[i], c)

\* A take that returned two callbacks of which the first was constructed last.
C1_Witness ==
  /\ TakeFinished
  /\ Len(results) = 2
  /\ results[1].when < results[2].when
  /\ results[1].callbackNum > results[2].callbackNum

\* C2 as stated: of two callbacks with equal due times, the one pushed onto
\* the queue first comes first in what take() returns, and is returned before
\* one that take() leaves queued.
C2_PushOrder ==
  TakeFinished =>
    /\ \A i, j \in 1..Len(results) :
         (i < j /\ results[i].when = results[j].when)
           => PushedBefore(results[i].callbackNum, results[j].callbackNum)
    /\ \A i \in 1..Len(results) : \A c \in Items(queue) :
         results[i].when = c.when
           => PushedBefore(results[i].callbackNum, c.callbackNum)

\* C2 amended: of two callbacks with equal due times that are queued together,
\* the one that took its sequence number first (the smaller callbackNum) comes
\* first in what take() returns and is returned before one that take() leaves
\* queued; an add() that begins after another has pushed takes a greater number.
C2_SequenceOrder ==
  /\ TakeFinished =>
       /\ \A i, j \in 1..Len(results) :
            (i < j /\ results[i].when = results[j].when)
              => results[i].callbackNum < results[j].callbackNum
       /\ \A i \in 1..Len(results) : \A c \in Items(queue) :
            results[i].when = c.when => results[i].callbackNum < c.callbackNum
  /\ \A c \in Items(queue) : c.callbackNum < nextCallbackNum

\* Two callbacks with equal due times returned in the order of their numbers,
\* the second of which was pushed first.
C2_Witness ==
  /\ TakeFinished
  /\ Len(results) = 2
  /\ results[1].when = results[2].when
  /\ results[1].callbackNum < results[2].callbackNum
  /\ PushedBefore(results[2].callbackNum, results[1].callbackNum)

\* C3: take(0, time) returns exactly the queued callbacks with when <= time,
\* each once, and leaves exactly those with when > time.
C3_TakeAllDue ==
  (TakeFinished /\ takeMax = 0) =>
    /\ Items(results) = DueBefore
    /\ Len(results) = Cardinality(DueBefore)
    /\ Items(queue) = takeBefore \ DueBefore
    /\ Len(queue) = Cardinality(takeBefore \ DueBefore)

\* An unbounded take that returned a callback due exactly at `time` and left a
\* later one queued.
C3_Witness ==
  /\ TakeFinished
  /\ takeMax = 0
  /\ Len(results) = 1
  /\ results[1].when = takeTime
  /\ Len(queue) = 1

\* C4: take(k, time) with k > 0 never holds more than k results; it returns
\* min(k, d) callbacks, d being the number due at `time`, they are the least
\* by (when, callbackNum), and every other callback stays queued.
C4_TakeAtMost ==
  /\ (pc[Main] \in {"t_loop", "t_pop", "t_ret"} /\ takeMax > 0)
       => Len(results) <= takeMax
  /\ (TakeFinished /\ takeMax > 0) =>
       /\ Len(results) = Min(takeMax, Cardinality(DueBefore))
       /\ Cardinality(Items(results)) = Len(results)
       /\ Items(results) \subseteq DueBefore
       /\ \A r \in Items(results) : \A c \in takeBefore \ Items(results) : KeyLess(r, c)
       /\ Items(queue) = takeBefore \ Items(results)
       /\ Len(queue) = Cardinality(takeBefore) - Len(results)

\* A take(1, time) that returned one callback and left another due one queued.
C4_Witness ==
  /\ TakeFinished
  /\ takeMax = 1
  /\ Len(results) = 1
  /\ \E c \in Items(queue) : c.when <= takeTime

\* The times the queries are asked about.
QueryTimes == 0..(MaxTime + 4)

\* C5: on every queue and for every time T, due(T) holds iff nextTimestamp()
\* has a value and it is <= T, empty() holds iff nextTimestamp() has none, and
\* the value is the least `when` of the queued callbacks.
C5_QueriesAgree ==
  LET next == nextTimestamp(queue) IN
    /\ \A T \in QueryTimes : due(queue, T) <=> (next.has_value /\ next.value <= T)
    /\ empty(queue) <=> ~next.has_value
    /\ next.has_value <=> Items(queue) # {}
    /\ next.has_value =>
         /\ \E c \in Items(queue) : c.when = next.value
         /\ \A c \in Items(queue) : next.value <= c.when

\* Two callbacks queued, the later-constructed one due first and due now, and
\* wait() has just read nextTimestamp() and left its loop.
C5_Witness ==
  /\ Len(queue) = 2
  /\ queue[1].when < queue[2].when
  /\ queue[1].callbackNum > queue[2].callbackNum
  /\ pc[Main] = "w_due"
  /\ end = queue[1].when
  /\ due(queue, now) /\ ~due(queue, queue[1].when - 1)

\* wait() has returned a boolean to its caller.
WaitReturned == pc[Main] = "w_done" /\ waitRet \in {"true", "false"}

\* The deadline of the running wait(): entry time + timeout; a negative timeout
\* has none that the clock reaches.
DeadlineReached == waitCall.timeoutSecs >= 0 /\ now >= waitCall.at + waitCall.timeoutSecs

SomethingDue == \E c \in Items(queue) : c.when <= now

\* The earliest of the deadline and the queued due times.
WakeTarget ==
  IF \E c \in Items(queue) : c.when < expireTime
  THEN CHOOSE w \in {c.when : c \in Items(queue)} : \A c \in Items(queue) : w <= c.when
  ELSE expireTime

\* C6: wait() never returns early: once its loop is left and when it has
\* returned, the clock has reached the deadline or a queued callback is due.
C6_NeverEarly ==
  (pc[Main] = "w_due" \/ WaitReturned) => (DeadlineReached \/ SomethingDue)

\* wait() returned true before its deadline, after sleeping, and everything
\* queued was constructed while it was waiting.
C6_Witness ==
  /\ WaitReturned
  /\ waitRet = "true"
  /\ ~DeadlineReached
  /\ wakeTime > 0
  /\ now > waitCall.at
  /\ \A c \in Items(queue) : c.callbackNum >= waitCall.num

\* C7: the step that returns from wait() without an interrupt returns true iff
\* a queued callback is due at that moment, and false iff the deadline has been
\* reached and nothing is due.
C7_ReturnsIsDue ==
  [][(pc[Main] = "w_due" /\ pc'[Main] # "w_due") =>
       /\ pc'[Main] = "w_done"
       /\ waitRet' \in {"true", "false"}
       /\ (waitRet' = "true") <=> SomethingDue
       /\ (waitRet' = "false") <=> (DeadlineReached /\ ~SomethingDue)]_vars

\* wait() returned false at its deadline with a callback queued that is not due.
C7_Witness ==
  /\ WaitReturned
  /\ waitRet = "false"
  /\ queue # <<>>
  /\ waitCall.timeoutSecs = 1
  /\ now = waitCall.at + 1

\* C8: no wake-up is lost.  A push while the main thread is blocked wakes it;
\* while it sleeps unwoken, and when it has decided to sleep, its target `end`
\* is the earliest of the deadline and the queued due times; an evaluation
\* that finds a queued callback due leaves the loop, and wait() returns true.
C8_NoLostWakeup ==
  /\ []((pc[Main] = "w_timedwait" \/ (pc[Main] = "w_blocked" /\ ~condvar.woken))
          => end = WakeTarget)
  /\ [][/\ (pc[Main] = "w_blocked" /\ queue' # queue) => condvar'.woken
        /\ (pc[Main] = "w_eval" /\ pc'[Main] # "w_eval" /\ SomethingDue)
             => pc'[Main] = "w_due"
        /\ (pc[Main] = "w_due" /\ pc'[Main] # "w_due" /\ SomethingDue)
             => waitRet' = "true"]_vars

\* The main thread has been woken before its timed wait ran out, and a callback
\* due before its target `end` is queued: it was pushed during the sleep.
C8_Witness ==
  /\ pc[Main] = "w_blocked"
  /\ condvar.woken
  /\ now < wakeTime
  /\ queue # <<>>
  /\ queue[1].when < end
  /\ queue[1].callbackNum >= waitCall.num

\* C9: with timed waits that end on time and statements that take no time, a
\* block lasts at most min(2, end - now) seconds, a wake leads to exactly one
\* interrupt check before the next evaluation, and no more than 2 seconds pass
\* between the entry of wait() and the first check, or between two checks.
C9_BoundedSleep ==
  /\ [](/\ pc[Main] = "w_timedwait" => waitFor = Min(2, end - now)
        /\ pc[Main] \in {"w_blocked", "w_check"} =>
             (wakeTime - waitFor <= now /\ now <= wakeTime /\ waitFor <= 2)
        /\ pc[Main] \in WaitPcs => now - lastCheck <= 2)
  /\ [][/\ (pc[Main] = "w_blocked" /\ pc'[Main] # "w_blocked") => pc'[Main] = "w_check"
        /\ (pc[Main] = "w_check" /\ pc'[Main] # "w_check")
             => (lastCheck' = now /\ pc'[Main] \in {"w_eval", "w_done"})
        /\ (pc'[Main] = "w_eval" /\ pc[Main] # "w_eval")
             => pc[Main] \in {"w_lock", "w_check"}]_vars

\* A sleep toward a target more than 2 seconds away has lasted its full 2
\* seconds and the interrupt check is about to run.
C9_Witness ==
  /\ pc[Main] = "w_check"
  /\ now - lastCheck = 2
  /\ end - lastCheck > 2
  /\ queue # <<>>
  /\ end = queue[1].when

\* C10: an interrupt check that finds an interrupt pending ends wait() there:
\* no boolean is returned, the loop is not re-entered, the mutex is released
\* and the queue is exactly as it was before the check.
C10_InterruptAborts ==
  /\ [](waitRet = "interrupted" => (pc[Main] = "w_done" /\ mutex.owner # Main))
  /\ [][(pc[Main] = "w_check" /\ pc'[Main] # "w_check" /\ interruptPending) =>
          /\ pc'[Main] = "w_done"
          /\ waitRet' = "interrupted"
          /\ queue' = queue
          /\ mutex' = Free]_vars

\* wait() was interrupted with callbacks queued, one of them pushed while it
\* was waiting.
C10_Witness ==
  /\ pc[Main] = "w_done"
  /\ waitRet = "interrupted"
  /\ Len(queue) = 2
  /\ \E c \in Items(queue) : c.callbackNum >= waitCall.num
  /\ \E c \in Items(queue) : c.callbackNum < waitCall.num

\* The statements at which a thread is inside a Guard: between taking the mutex
\* and giving it up, the sleep inside timedwait left out.
LockedPcs == {"a_push", "t_loop", "t_pop", "t_ret", "w_eval", "w_timedwait",
              "w_check", "w_due", "l_copy", "l_loop", "q_read"}

\* The statements that read or change the queue.
HeapPcs == {"a_push", "t_loop", "t_pop", "w_eval", "w_due", "l_copy", "q_read"}

Holders == {t \in Threads : pc[t] \in LockedPcs}

\* C11: a thread at a statement that reads or changes the queue owns the
\* mutex, at most one thread is inside a Guard and it is the owner, the mutex
\* is free when nobody is; a step that changes the queue is a step of the owner
\* at push or pop; and from the moment take() or add() has the mutex to the
\* moment it gives it up no other thread gets to a statement that reads the
\* queue, so the top copied and not yet popped is seen by take() alone.
C11_LockDiscipline ==
  /\ [](/\ HeapPcs \subseteq LockedPcs
        /\ \A t \in Holders : mutex.owner = t /\ mutex.count >= 1
        /\ Cardinality(Holders) <= 1
        /\ (Holders = {}) <=> (mutex = Free))
  /\ [][/\ queue' # queue =>
             /\ mutex.owner \in Threads
             /\ pc[mutex.owner] \in {"a_push", "t_pop"}
             /\ pc'[mutex.owner] # pc[mutex.owner]
             /\ \A t \in Threads \ {mutex.owner} : pc'[t] = pc[t]
        /\ \A t \in Threads :
             (pc[t] \in LockedPcs /\ pc'[t] \in LockedPcs)
               => \A u \in Threads \ {t} : pc'[u] \notin LockedPcs]_vars

\* take() has copied the top into results and not yet popped it, while the
\* background thread stands at its Guard with a callback to push.
C11_Witness ==
  /\ pc[Main] = "t_pop"
  /\ results # <<>>
  /\ top(queue) = results[Len(results)]
  /\ pc["bg"] = "a_lock"
  /\ mutex.owner = Main

\* list() has drained its copy: listResults is what it returns.
ListFinished == pc[Main] = "l_loop" /\ tempQueue = <<>>

\* The queued callback a description is of.
Described(r) == CHOOSE c \in Items(queue) : c.callbackNum = r.id

\* What the loop of take(0, T) collects from q when T is past every due time.
RECURSIVE DrainOrder(_)
DrainOrder(q) == IF q = <<>> THEN <<>> ELSE <<top(q)>> \o DrainOrder(pop(q))

\* C12: list() leaves the queue as it is, also at the hands of the producers,
\* for as long as it runs; what it has described and what its copy still holds
\* are together exactly the queued callbacks; and it returns one description
\* per queued callback, in ascending (when, callbackNum) order, which is the
\* order in which an unbounded take() at a late enough time returns them, each
\* with the due time relative to a clock reading during the call.
C12_ListSnapshot ==
  /\ [](pc[Main] = "l_loop" =>
          /\ \A i \in 1..Len(listResults) :
               \E c \in Items(queue) : c.callbackNum = listResults[i].id
          /\ {Described(listResults[i]) : i \in 1..Len(listResults)} \cup Items(tempQueue)
               = Items(queue)
          /\ Len(listResults) + Len(tempQueue) = Len(queue))
  /\ [](ListFinished =>
          /\ Len(listResults) = Len(queue)
          /\ \A i, j \in 1..Len(listResults) :
               i < j => KeyLess(Described(listResults[i]), Described(listResults[j]))
          /\ \A i \in 1..Len(listResults) :
               /\ Described(listResults[i]) = DrainOrder(queue)[i]
               /\ listResults[i].when >= Described(listResults[i]).when - now
               /\ listResults[i].when <= Described(listResults[i]).when)
  /\ [][pc[Main] \in {"l_copy", "l_loop"} => queue' = queue]_vars

\* list() returns two descriptions, the first of the callback constructed
\* last, and the clock moved between the two.
C12_Witness ==
  /\ ListFinished
  /\ Len(listResults) = 2
  /\ listResults[1].id > listResults[2].id
  /\ Described(listResults[2]).when - listResults[2].when
       > Described(listResults[1]).when - listResults[1].when

\* How many callbacks with sequence number n are: constructed and not yet
\* pushed, queued, held by the running take(), returned by finished takes.
\* The top that take() has copied and not yet popped is counted as queued.
InFlight(n) == Cardinality({t \in Threads : cb[t].callbackNum = n})
Queued(n) == Cardinality({i \in 1..Len(queue) : queue[i].callbackNum = n})
Taken(n) ==
  Cardinality({i \in 1..Len(results) :
                 /\ results[i].callbackNum = n
                 /\ ~(pc[Main] = "t_pop" /\ i = Len(results))})
Copies(n) == InFlight(n) + Queued(n) + Taken(n) + returned[n]

\* C13: no sequence number is carried by two callbacks, wherever they are or
\* were (under construction in any thread, queued, taken, returned), every
\* number carried is below the counter, the counter never decreases, and a
\* construction takes the counter's value and raises the counter by one, so the
\* new callback's number is above that of every callback constructed before.
C13_SequenceUnique ==
  /\ [](\A n \in CallbackNums :
          /\ Copies(n) <= 1
          /\ Copies(n) >= 1 => n < nextCallbackNum)
  /\ [][/\ nextCallbackNum' >= nextCallbackNum
        /\ \A t \in Threads :
             (cb'[t] # cb[t] /\ cb'[t] # NoCallback) =>
               /\ cb'[t].callbackNum = nextCallbackNum
               /\ nextCallbackNum' = nextCallbackNum + 1
               /\ \A n \in CallbackNums : Copies(n) >= 1 => n < cb'[t].callbackNum]_vars

\* Both threads have constructed a callback due at the same time and not yet
\* pushed it; the owner thread's was constructed second.
C13_Witness ==
  /\ pc[Main] = "a_lock"
  /\ pc["bg"] = "a_lock"
  /\ cb[Main].when = cb["bg"].when
  /\ cb[Main].callbackNum = cb["bg"].callbackNum + 1

\* C14: on the callbacks compared, operator< is a strict total order that is
\* the order on (when, callbackNum): of two different callbacks exactly one is
\* less than the other, a < b iff b > a, no callback is less or greater than
\* itself, a < b and b < c give a < c, and of two callbacks with one due time
\* the one with the smaller number is the lesser.
C14_StrictTotalOrder ==
  ordering.done =>
    \A i, j, k \in TestIndices :
      LET a == callbacks[i]
          b == callbacks[j]
          lt == ordering.less
          gt == ordering.greater
      IN /\ a # b => (lt[i][j] <=> ~lt[j][i])
         /\ a = b => (~lt[i][j] /\ ~gt[i][j])
         /\ lt[i][j] <=> gt[j][i]
         /\ ~lt[i][i] /\ ~gt[i][i]
         /\ (lt[i][j] /\ lt[j][k]) => lt[i][k]
         /\ (a.when = b.when /\ a.callbackNum < b.callbackNum) => lt[i][j]
         /\ lt[i][j] <=> KeyLess(a, b)

\* Three different callbacks compared: two with one due time, and a third due
\* before them that was constructed last.
C14_Witness ==
  /\ ordering.done
  /\ callbacks[1].when = callbacks[2].when
  /\ callbacks[1].callbackNum < callbacks[2].callbackNum
  /\ callbacks[3].when < callbacks[1].when
  /\ callbacks[3].callbackNum > callbacks[2].callbackNum
  /\ ordering.less[3][1] /\ ordering.less[1][2] /\ ordering.less[3][2]

\* The running wait() was called with a negative timeout.
WaitUnbounded == pc[Main] \in WaitPcs \cup {"w_done"} /\ waitCall.timeoutSecs < 0

\* C15: during a wait() with a negative timeout the deadline lies beyond the
\* clock and beyond every queued due time; it never returns false, it leaves
\* its loop and returns true only with a queued callback due, every sleep is of
\* at most 2 seconds and is followed by the interrupt check, an evaluation that
\* finds nothing due goes to sleep again, and wait() ends only by returning
\* true or by the interrupt check finding an interrupt.
C15_NegativeTimeout ==
  /\ [](WaitUnbounded =>
          /\ now < expireTime
          /\ \A c \in Items(queue) : c.when < expireTime
          /\ waitRet # "false"
          /\ (pc[Main] = "w_due" \/ waitRet = "true") => SomethingDue
          /\ pc[Main] \in {"w_timedwait", "w_blocked"} => (waitFor >= 1 /\ waitFor <= 2))
  /\ [][WaitUnbounded =>
          /\ (pc[Main] = "w_eval" /\ pc'[Main] # "w_eval" /\ ~SomethingDue)
               => pc'[Main] = "w_timedwait"
          /\ (pc[Main] = "w_blocked" /\ pc'[Main] # "w_blocked") => pc'[Main] = "w_check"
          /\ (pc[Main] # "w_done" /\ pc'[Main] = "w_done") =>
               \/ (pc[Main] = "w_due" /\ waitRet' = "true" /\ SomethingDue)
               \/ (pc[Main] = "w_check" /\ waitRet' = "interrupted" /\ interruptPending)]_vars

\* A wait() with a negative timeout on an empty registry is asleep again after
\* an interrupt check made 2 seconds or more after its entry.
C15_Witness ==
  /\ pc[Main] = "w_blocked"
  /\ waitCall.timeoutSecs < 0
  /\ queue = <<>>
  /\ lastCheck >= waitCall.at + 2
  /\ waitFor = 2

Max(a, b) == IF a > b THEN a ELSE b

\* Nothing has been pushed since the running wait() was entered.
NoInsertSinceEntry == Len(queue) = waitCall.len

\* The instant the running wait() is due to return if nothing is pushed: the
\* earliest of the deadline and the due times queued, or the entry if that
\* instant had passed by then.
ReturnTime == Max(waitCall.at, WakeTarget)

\* C16: with timed waits that end on time and statements that take no time,
\* and with nothing pushed since entry, a running wait() never finds the clock
\* past the earliest of its deadline and the queued due times (or past its
\* entry, if that is later); it leaves its loop and returns exactly then, true
\* iff a callback is due by then; and the first evaluation at or after that
\* instant leaves the loop.
C16_NotLate ==
  /\ []((pc[Main] \in WaitPcs /\ NoInsertSinceEntry) => now <= ReturnTime)
  /\ []((pc[Main] = "w_due" /\ NoInsertSinceEntry) => now = ReturnTime)
  /\ [][/\ (pc[Main] = "w_eval" /\ pc'[Main] # "w_eval" /\ now >= WakeTarget)
             => pc'[Main] = "w_due"
        /\ (pc[Main] = "w_due" /\ pc'[Main] = "w_done" /\ NoInsertSinceEntry) =>
             /\ now = ReturnTime
             /\ (waitRet' = "true") <=> (queue # <<>> /\ top(queue).when <= ReturnTime)
             /\ (waitRet' = "false") <=> (queue = <<>> \/ top(queue).when > ReturnTime)]_vars

\* A wait() with a negative timeout, entered with one callback queued that was
\* due 3 seconds later and nothing pushed since, has returned true 3 seconds
\* after its entry.
C16_Witness ==
  /\ WaitReturned
  /\ waitRet = "true"
  /\ waitCall.timeoutSecs < 0
  /\ waitCall.len = 1
  /\ Len(queue) = 1
  /\ top(queue).when = waitCall.at + 3
  /\ now = waitCall.at + 3

\* C17: every sequence number handed out belongs to exactly one callback that
\* is in exactly one place: under construction and not yet pushed, queued
\* once, held once by the running take(), or returned once by one finished
\* take(); a number not handed out belongs to none.  A step that removes a
\* callback from the queue is the pop of take(), it removes the callback that
\* take() has just copied into its results and nothing else, and every other
\* step keeps every queued callback queued.
C17_ItemsConserved ==
  /\ [](\A n \in CallbackNums :
          /\ n < nextCallbackNum => Copies(n) = 1
          /\ n >= nextCallbackNum => Copies(n) = 0
          /\ (n < nextCallbackNum /\ InFlight(n) = 0)
               => (Queued(n) = 1 /\ Taken(n) + returned[n] = 0)
                    \/ (Queued(n) = 0 /\ Taken(n) + returned[n] = 1))
  /\ [][/\ Items(queue) \ Items(queue') # {} =>
             /\ pc[Main] = "t_pop"
             /\ results # <<>>
             /\ Items(queue) \ Items(queue') = {results[Len(results)]}
             /\ Len(queue') = Len(queue) - 1
             /\ results' = results
        /\ Len(queue') < Len(queue) => pc[Main] = "t_pop"
        /\ \A n \in CallbackNums : returned'[n] >= returned[n]]_vars

\* One callback has been returned by a take(), the other, constructed before
\* it, is still queued, and a wait() has just been interrupted.
C17_Witness ==
  /\ returned[1] = 1
  /\ Queued(0) = 1
  /\ pc[Main] = "w_done"
  /\ waitRet = "interrupted"

WaitWithDeadline ==
  /\ pc[Main] \in WaitPcs
  /\ waitCall.timeoutSecs >= 0
  /\ waitCall.at <= MaxTime

\* C19: with the clock running and the threads scheduled fairly, a wait() with
\* a non-negative timeout ends: it returns, unless an interrupt check ends it
\* first, whatever is pushed and however often it is woken meanwhile; and an
\* evaluation made at or after the deadline leaves the loop.
C19_WaitTerminates ==
  /\ WaitWithDeadline ~> (WaitReturned \/ waitRet = "interrupted")
  /\ [][(WaitWithDeadline /\ pc[Main] = "w_eval" /\ pc'[Main] # "w_eval"
           /\ now >= expireTime) => pc'[Main] = "w_due"]_vars

\* A wait(1) entered at MaxTime has returned false a second later, after a
\* callback that is not yet due was pushed while it waited.
C19_Witness ==
  /\ WaitReturned
  /\ waitRet = "false"
  /\ waitCall.timeoutSecs = 1
  /\ waitCall.at = MaxTime
  /\ now = MaxTime + 1
  /\ Len(queue) > waitCall.len

\* wait() has returned true at time `ready` and the owner thread has called
\* nothing since, or is in the take() it called next.
Ready == ready # NotReady

\* C20: when wait() has returned true and the owner thread calls take(max, T)
\* next with T at or after the time of that return, take() returns at least
\* one callback, whatever the producers push in between.  Until the take() has
\* copied a callback, one that was due at the time of the return is queued;
\* the only step that can end `a callback is due at T` is the pop of take();
\* and the clock never goes back.
C20_ReadinessKept ==
  /\ []((TakeFinished /\ Ready /\ takeTime >= ready) => Len(results) >= 1)
  /\ [](Ready => ready <= now)
  /\ []((Ready /\ results = <<>>) => due(queue, ready))
  /\ [][/\ now' >= now
        /\ \A T \in QueryTimes :
             (due(queue, T) /\ ~due(queue', T)) => pc[Main] = "t_pop"]_vars

\* After wait() returned true the owner thread called take(1, T) with T the
\* time of the return, later on the clock, and take() has returned the
\* callback constructed last and left the other queued.
C20_Witness ==
  /\ TakeFinished
  /\ Ready
  /\ takeTime = ready
  /\ now > ready
  /\ takeMax = 1
  /\ Len(results) = 1
  /\ results[1].callbackNum = 1
  /\ Len(queue) = 1
====
